---- MODULE Spec2Model ----
(***************************************************************************)
(* Model of buttercup.program_model.program_model.ProgramModel: the queue  *)
(* consumer serve_item, the task orchestrator process_task and the two     *)
(* indexing strategies process_task_codequery and process_task_kythe.      *)
(*                                                                         *)
(* Every worker process executes serve_item step by step (field pc of its  *)
(* record).  The outcome of every external call (an exception, a return    *)
(* value) is an input drawn with \E.  The reliable queue, the task         *)
(* registry and the service loop live in buttercup.common; they are        *)
(* modelled at their interface.                                            *)
(***************************************************************************)
EXTENDS Integers, Sequences, FiniteSets, Bags, TLC

\* ------------------------------------------------------------------ bounds
\* inbound items in the queue
NumItems == 1
\* deliveries of an item that are counted (the count saturates there)
MaxDeliveries == 2

Items == 1..NumItems
Workers == {"w1", "w2"}
None == 0

VARIABLES
    pm,         \* the ProgramModel fields (same deployment for every worker)
    active,     \* the worker processes that are deployed
    queue,      \* inbound reliable queue: per item its delivery state
    out,        \* outbound queue: the bag of IndexOutput records pushed so far
    cancelled,  \* task registry: the task ids that should stop processing
    graph,      \* graph store: the task ids whose graphml was loaded
    wk,         \* per worker: position in serve_item, locals, call record
    orphaned    \* per item: pushes whose worker stopped before the ack

vars == <<pm, active, queue, out, cancelled, graph, wk, orphaned>>

\* ------------------------------------------------------------- data model
\* IndexRequest carried by inbound item i (all five fields differ per item)
IndexRequest(i) ==
    [ build_type   |-> <<"build_type", i>>,
      package_name |-> <<"package_name", i>>,
      sanitizer    |-> <<"sanitizer", i>>,
      task_dir     |-> <<"task_dir", i>>,
      task_id      |-> i ]

\* variant: task_dir is filled from package_name
IndexOutputMixed(task_index) ==
    [ build_type   |-> task_index.build_type,
      package_name |-> task_index.package_name,
      sanitizer    |-> task_index.sanitizer,
      task_dir     |-> task_index.package_name,
      task_id      |-> task_index.task_id ]

\* IndexOutput(...) as built in serve_item
IndexOutput(task_index) ==
    [ build_type   |-> task_index.build_type,
      package_name |-> task_index.package_name,
      sanitizer    |-> task_index.sanitizer,
      task_dir     |-> task_index.task_dir,
      task_id      |-> task_index.task_id ]

\* ProgramModel.__post_init__: the queues and the registry exist iff redis
\* was given; a field is TRUE when it is not None
PostInit(redis, wdir, script_dir, python, kythe_dir, graphdb_enabled) ==
    [ task_queue      |-> redis,
      output_queue    |-> redis,
      registry        |-> redis,
      wdir            |-> wdir,
      script_dir      |-> script_dir,
      python          |-> python,
      kythe_dir       |-> kythe_dir,
      graphdb_enabled |-> graphdb_enabled ]

\* ---------------------------------------------------- reliable queue, registry
\* status: new (never delivered), pending (claimed, un-acknowledged),
\* acked_cancel / acked_success (acknowledged, on which path of serve_item);
\* shared records that the item was redelivered after a claim timeout while
\* its earlier holder was still inside serve_item
QueueItemInit == [status |-> "new", eligible |-> FALSE, deliveries |-> 0,
                  shared |-> FALSE]

Acked(i) == queue[i].status \in {"acked_cancel", "acked_success"}

\* items pop() can hand out: never delivered, or claimed with the claim timed out
Ready == {i \in Items : \/ queue[i].status = "new"
                        \/ queue[i].status = "pending" /\ queue[i].eligible}

Pop(i) ==
    [queue EXCEPT ![i] =
        [@ EXCEPT !.status = "pending", !.eligible = FALSE,
                  !.deliveries = IF @ < MaxDeliveries THEN @ + 1 ELSE @,
                  !.shared = @ \/ (queue[i].eligible /\ \E v \in Workers :
                                       wk[v].item = i /\ wk[v].status = "running")]]

\* ack_item removes the item's pending entry (claim and delivery count)
AckItem(i, how) == [queue EXCEPT ![i] = [status |-> how, eligible |-> FALSE,
                                         deliveries |-> 0, shared |-> @.shared]]

ShouldStopProcessing(task_id) == task_id \in cancelled

\* ------------------------------------------------------------ worker record
NewCall ==
    [ pc       |-> "boot",    \* position in serve_item
      item     |-> None,      \* rq_item
      stop     |-> "unk",     \* what the registry answered in this call
      checks   |-> 0,         \* registry consultations in this call
      cq       |-> "none",    \* process_task_codequery: none / ok / fail / raised
      cqsteps  |-> 0,         \* codequery steps that completed
      ky       |-> "none",    \* process_task_kythe: none / running / ok / fail / raised
      ksteps   |-> <<>>,      \* kythe steps executed, in order, with outcome
      td       |-> FALSE,     \* temporary workspace exists
      copy     |-> FALSE,     \* working copy exists
      arts     |-> {},        \* intermediate artifacts on disk
      output_dir |-> "unset", \* what index_target returned
      kfail    |-> "none",    \* the step at which process_task_kythe returned False
      pushed   |-> FALSE,     \* this call pushed an IndexOutput
      acked    |-> FALSE,     \* this call acknowledged its item
      status   |-> "none",    \* none / running / returned / raised / crashed
      exc      |-> "none",    \* where a raised exception came from
      ret      |-> "none" ]   \* serve_item's return value

Set(w, r) == wk' = [wk EXCEPT ![w] = r]

\* the step logs of the strategies belong to their frames: they are gone
\* once serve_item is left
DropLogs(r) == [r EXCEPT !.cqsteps = 0, !.ksteps = <<>>]

\* serve_item returns val to its caller
Returned(r, val) ==
    [DropLogs(r) EXCEPT !.pc = "idle", !.status = "returned", !.ret = val]

\* an exception leaves serve_item (or serve); where names its origin
Raised(r, where) ==
    [DropLogs(r) EXCEPT !.pc = "raised", !.status = "raised", !.ret = "raise",
                        !.exc = where]

\* ---------------------------------------------------- process_task_codequery
\* the calls of process_task_codequery, in program order
CodequerySteps ==
    << "challenge_task", "get_rw_copy", "apply_patch_diff", "wdir_check",
       "telemetry", "codequery_persistent", "dir_to_remote_archive", "scope_exit" >>

CodequeryFaults == {"nothing"} \cup {CodequerySteps[k] : k \in 1..Len(CodequerySteps)}

\* variant: the with block's exit is left outside the try
CodequeryTryScopeNarrow == 1..(Len(CodequerySteps) - 1)

\* the steps the try ... except Exception of process_task_codequery encloses
CodequeryTryScope == 1..Len(CodequerySteps)

\* first step that raises: the step the environment makes fail, or the
\* wdir check when self.wdir is None; 0 when every step completes
CodequeryFirstRaise(self, fault) ==
    LET raising == {k \in 1..Len(CodequerySteps) :
                       \/ CodequerySteps[k] = fault
                       \/ CodequerySteps[k] = "wdir_check" /\ ~self.wdir}
    IN  IF raising = {} THEN 0
        ELSE CHOOSE k \in raising : \A j \in raising : k <= j

\* process_task_codequery: True when the body ran to its end; an exception
\* raised inside the try is logged and turned into False
process_task_codequery(self, fault) ==
    LET k == CodequeryFirstRaise(self, fault)
    IN  IF k = 0
        THEN [ret |-> "ok", completed |-> Len(CodequerySteps)]
        ELSE IF k \in CodequeryTryScope
             THEN [ret |-> "fail", completed |-> k - 1]
             ELSE [ret |-> "raised", completed |-> k - 1]

\* variant: process_task reports success whatever the strategies returned
ProcessTaskResultAlways(rv_code_query, rv_kythe) == TRUE

\* variant: process_task succeeds only when both strategies succeeded
ProcessTaskResultAnd(rv_code_query, rv_kythe) == rv_code_query /\ rv_kythe

\* variant: process_task returns the codequery result alone
ProcessTaskResultCodequery(rv_code_query, rv_kythe) == rv_code_query

\* process_task's result: rv_code_query or rv_kythe
ProcessTaskResult(rv_code_query, rv_kythe) == rv_code_query \/ rv_kythe

Success(r) == ProcessTaskResult(r.cq = "ok", r.ky = "ok")

\* ------------------------------------------------------------------ serve
\* serve(): refuse to start the loop without both queues
Serve(w) ==
    /\ w \in active
    /\ wk[w].pc = "boot"
    /\ IF ~pm.task_queue THEN Set(w, Raised(NewCall, "serve:task_queue"))
       ELSE IF ~pm.output_queue THEN Set(w, Raised(NewCall, "serve:output_queue"))
       ELSE Set(w, [NewCall EXCEPT !.pc = "idle"])
    /\ UNCHANGED <<pm, active, queue, out, cancelled, graph, orphaned>>

\* variant: the pop hands out any un-acknowledged item, claimed or not
ServeItemPopClaimed(w) ==
    /\ w \in active
    /\ wk[w].pc \in {"boot", "idle"}
    /\ LET call == [NewCall EXCEPT !.status = "running"] IN
       IF ~pm.task_queue
       THEN /\ Set(w, Raised(call, "task_queue"))
            /\ UNCHANGED queue
       ELSE IF {i \in Items : ~Acked(i)} = {}
            THEN /\ Set(w, Returned(call, "false"))
                 /\ UNCHANGED queue
            ELSE \E i \in {j \in Items : ~Acked(j)} :
                    /\ queue' = Pop(i)
                    /\ Set(w, [call EXCEPT !.item = i, !.pc = "check"])
    /\ UNCHANGED <<pm, active, out, cancelled, graph, orphaned>>

\* serve_item, first part: the queue check and the pop
ServeItemPop(w) ==
    /\ w \in active
    /\ wk[w].pc \in {"boot", "idle"}
    /\ LET call == [NewCall EXCEPT !.status = "running"] IN
       IF ~pm.task_queue
       THEN /\ Set(w, Raised(call, "task_queue"))
            /\ UNCHANGED queue
       ELSE IF Ready = {}
            THEN /\ Set(w, Returned(call, "false"))
                 /\ UNCHANGED queue
            ELSE \E i \in Ready :
                    /\ queue' = Pop(i)
                    /\ Set(w, [call EXCEPT !.item = i, !.pc = "check"])
    /\ UNCHANGED <<pm, active, out, cancelled, graph, orphaned>>

\* variant: a cancelled item is skipped without being acknowledged
ServeItemCheckNoAck(w) ==
    /\ wk[w].pc = "check"
    /\ LET r == [wk[w] EXCEPT !.checks = @ + 1]
           task_index == IndexRequest(r.item)
       IN  IF pm.registry /\ ShouldStopProcessing(task_index.task_id)
           THEN Set(w, Returned([r EXCEPT !.stop = "yes"], "true"))
           ELSE Set(w, [r EXCEPT !.stop = "no", !.pc = "process_task"])
    /\ UNCHANGED <<pm, active, queue, out, cancelled, graph, orphaned>>

\* serve_item: the cancellation check
ServeItemCheck(w) ==
    /\ wk[w].pc = "check"
    /\ LET r == [wk[w] EXCEPT !.checks = @ + 1]
           task_index == IndexRequest(r.item)
       IN  IF pm.registry /\ ShouldStopProcessing(task_index.task_id)
           THEN /\ queue' = AckItem(r.item, "acked_cancel")
                /\ Set(w, Returned([r EXCEPT !.stop = "yes", !.acked = TRUE], "true"))
           ELSE /\ Set(w, [r EXCEPT !.stop = "no", !.pc = "process_task"])
                /\ UNCHANGED queue
    /\ UNCHANGED <<pm, active, out, cancelled, graph, orphaned>>

\* process_task, first call: rv_code_query = self.process_task_codequery(args)
ProcessTaskCodequery(w) ==
    /\ wk[w].pc = "process_task"
    /\ \E fault \in CodequeryFaults :
          LET res == process_task_codequery(pm, fault)
              r   == [wk[w] EXCEPT !.cq = res.ret, !.cqsteps = res.completed]
          IN  IF res.ret = "raised"
              THEN Set(w, Raised(r, "codequery"))
              ELSE Set(w, [r EXCEPT !.pc = "pt_branch"])
    /\ UNCHANGED <<pm, active, queue, out, cancelled, graph, orphaned>>

\* variant: kythe is skipped when codequery succeeded
ProcessTaskBranchShortCircuit(w) ==
    /\ wk[w].pc = "pt_branch"
    /\ LET r == [wk[w] EXCEPT !.cqsteps = 0]
       IN  IF pm.graphdb_enabled /\ r.cq # "ok"
           THEN Set(w, [r EXCEPT !.ky = "running", !.pc = "k_mkdtemp"])
           ELSE Set(w, [r EXCEPT !.pc = "decide"])
    /\ UNCHANGED <<pm, active, queue, out, cancelled, graph, orphaned>>

\* process_task: rv_kythe = False, and kythe runs when graphdb_enabled
ProcessTaskBranch(w) ==
    /\ wk[w].pc = "pt_branch"
    /\ LET r == [wk[w] EXCEPT !.cqsteps = 0]
       IN  IF pm.graphdb_enabled
           THEN Set(w, [r EXCEPT !.ky = "running", !.pc = "k_mkdtemp"])
           ELSE Set(w, [r EXCEPT !.pc = "decide"])
    /\ UNCHANGED <<pm, active, queue, out, cancelled, graph, orphaned>>

\* -------------------------------------------------------- process_task_kythe
\* the steps of process_task_kythe that sit inside a try ... except Exception
KytheGuarded == {"config", "index_target", "chown", "merge", "cxx_index", "graphml", "load"}

\* the conversion stages, in pipeline order
Stages == <<"merge", "cxx_index", "graphml", "load">>

KLog(r, step, res) == [r EXCEPT !.ksteps = Append(@, <<step, res>>)]

\* control leaves the with blocks: the working copy, then the workspace with
\* every file in it, are removed
KytheLeave(r) == [r EXCEPT !.td = FALSE, !.copy = FALSE, !.arts = {}]

\* variant: a False return leaves the workspace and its files behind
KytheReturnFalseKeep(r, step) ==
    [r EXCEPT !.ky = "fail", !.kfail = step, !.pc = "decide"]

\* return False from inside the with blocks, at step
KytheReturnFalse(r, step) ==
    [KytheLeave(r) EXCEPT !.ky = "fail", !.kfail = step, !.pc = "decide"]

\* return True after the with blocks
KytheReturnTrue(r) == [KytheLeave(r) EXCEPT !.ky = "ok", !.pc = "decide"]

\* a step raised: inside a try the handler logs and returns False; outside
\* one the exception unwinds the with blocks and leaves process_task_kythe,
\* process_task and serve_item
KytheOnRaise(r, step) ==
    IF step \in KytheGuarded
    THEN KytheReturnFalse(KLog(r, step, "fail"), step)
    ELSE Raised([KytheLeave(KLog(r, step, "fail")) EXCEPT !.ky = "raised"], "kythe")

KytheOk(r, step, next) == [KLog(r, step, "ok") EXCEPT !.pc = next]

\* tempfile.TemporaryDirectory(dir=self.wdir)
KytheMkdtemp(w) ==
    /\ wk[w].pc = "k_mkdtemp"
    /\ \E ok \in BOOLEAN :
          IF ok THEN Set(w, [KytheOk(wk[w], "mkdtemp", "k_chmod") EXCEPT !.td = TRUE])
                ELSE Set(w, KytheOnRaise(wk[w], "mkdtemp"))
    /\ UNCHANGED <<pm, active, queue, out, cancelled, graph, orphaned>>

\* os.stat / os.chmod on the workspace
KytheChmod(w) ==
    /\ wk[w].pc = "k_chmod"
    /\ \E ok \in BOOLEAN :
          IF ok THEN Set(w, KytheOk(wk[w], "chmod", "k_rw_copy"))
                ELSE Set(w, KytheOnRaise(wk[w], "chmod"))
    /\ UNCHANGED <<pm, active, queue, out, cancelled, graph, orphaned>>

\* ChallengeTask(...) and entering tsk.get_rw_copy(work_dir=td)
KytheRwCopy(w) ==
    /\ wk[w].pc = "k_rw_copy"
    /\ \E ok \in BOOLEAN :
          IF ok THEN Set(w, [KytheOk(wk[w], "rw_copy", "k_patch") EXCEPT !.copy = TRUE])
                ELSE Set(w, KytheOnRaise(wk[w], "rw_copy"))
    /\ UNCHANGED <<pm, active, queue, out, cancelled, graph, orphaned>>

\* local_tsk.apply_patch_diff(): a diff applied, no diff, or an exception
KythePatch(w) ==
    /\ wk[w].pc = "k_patch"
    /\ \E res \in {"applied", "no_diff", "raise"} :
          IF res = "raise" THEN Set(w, KytheOnRaise(wk[w], "patch"))
                           ELSE Set(w, KytheOk(wk[w], "patch", "k_index"))
    /\ UNCHANGED <<pm, active, queue, out, cancelled, graph, orphaned>>

\* the configuration checks and indexer.index_target(local_tsk)
KytheIndexTarget(w) ==
    /\ wk[w].pc = "k_index"
    /\ IF ~pm.script_dir \/ ~pm.python \/ ~pm.kythe_dir
       THEN Set(w, KytheOnRaise(wk[w], "config"))
       ELSE \E res \in {"dir", "none", "raise"} :
               IF res = "raise"
               THEN Set(w, KytheOnRaise(wk[w], "index_target"))
               ELSE Set(w, [KytheOk(wk[w], "index_target", "k_chown")
                              EXCEPT !.output_dir = res])
    /\ UNCHANGED <<pm, active, queue, out, cancelled, graph, orphaned>>

\* variant: the output_dir is None test is missing
KytheChownNoTest(w) ==
    /\ wk[w].pc = "k_chown"
    /\ \E ok \in BOOLEAN :
          IF ~ok THEN Set(w, KytheOnRaise(wk[w], "chown"))
                 ELSE Set(w, KytheOk(wk[w], "chown", "k_merge"))
    /\ UNCHANGED <<pm, active, queue, out, cancelled, graph, orphaned>>

\* sudo chown -R of the working copy, then the output_dir is None test
KytheChown(w) ==
    /\ wk[w].pc = "k_chown"
    /\ \E ok \in BOOLEAN :
          IF ~ok THEN Set(w, KytheOnRaise(wk[w], "chown"))
          ELSE IF wk[w].output_dir = "none"
               THEN Set(w, KytheReturnFalse(KLog(wk[w], "chown", "ok"), "output_dir"))
               ELSE Set(w, KytheOk(wk[w], "chown", "k_merge"))
    /\ UNCHANGED <<pm, active, queue, out, cancelled, graph, orphaned>>

\* a stage that failed may leave a partial output file behind
StageArts(r, res, file) ==
    IF res \in {"ok", "fail_partial"} THEN [r EXCEPT !.arts = @ \cup {file}] ELSE r

\* index_kythe, first half: ktool.merge_kythe_output
KytheMerge(w) ==
    /\ wk[w].pc = "k_merge"
    /\ \E res \in {"ok", "fail", "fail_partial"} :
          LET r == StageArts(wk[w], res, "merged_kzip")
          IN  IF res = "ok" THEN Set(w, KytheOk(r, "merge", "k_cxx_index"))
                            ELSE Set(w, KytheOnRaise(r, "merge"))
    /\ UNCHANGED <<pm, active, queue, out, cancelled, graph, orphaned>>

\* variant: a failed cxx_index is logged but not re-raised
KytheCxxIndexSwallow(w) ==
    /\ wk[w].pc = "k_cxx_index"
    /\ \E res \in {"ok", "fail", "fail_partial"} :
          LET r == StageArts(wk[w], res, "bin_file")
          IN  IF res = "ok" THEN Set(w, KytheOk(r, "cxx_index", "k_graphml"))
                            ELSE Set(w, [KLog(r, "cxx_index", "fail") EXCEPT !.pc = "k_graphml"])
    /\ UNCHANGED <<pm, active, queue, out, cancelled, graph, orphaned>>

\* index_kythe, second half: ktool.cxx_index; its handler logs and re-raises
\* into the handler of process_task_kythe
KytheCxxIndex(w) ==
    /\ wk[w].pc = "k_cxx_index"
    /\ \E res \in {"ok", "fail", "fail_partial"} :
          LET r == StageArts(wk[w], res, "bin_file")
          IN  IF res = "ok" THEN Set(w, KytheOk(r, "cxx_index", "k_graphml"))
                            ELSE Set(w, KytheOnRaise(r, "cxx_index"))
    /\ UNCHANGED <<pm, active, queue, out, cancelled, graph, orphaned>>

\* writing the graphml file from the binary index
KytheGraphml(w) ==
    /\ wk[w].pc = "k_graphml"
    /\ \E res \in {"ok", "fail", "fail_partial"} :
          LET r == StageArts(wk[w], res, "graphml_file")
          IN  IF res = "ok" THEN Set(w, KytheOk(r, "graphml", "k_load"))
                            ELSE Set(w, KytheOnRaise(r, "graphml"))
    /\ UNCHANGED <<pm, active, queue, out, cancelled, graph, orphaned>>

\* load_graphml: import the graphml file into the graph store; on success the
\* with blocks are left and process_task_kythe returns True
KytheLoad(w) ==
    /\ wk[w].pc = "k_load"
    /\ \E ok \in BOOLEAN :
          IF ok THEN /\ Set(w, KytheReturnTrue(KLog(wk[w], "load", "ok")))
                     /\ graph' = graph \cup {IndexRequest(wk[w].item).task_id}
                ELSE /\ Set(w, KytheOnRaise(wk[w], "load"))
                     /\ UNCHANGED graph
    /\ UNCHANGED <<pm, active, queue, out, cancelled, orphaned>>

\* ------------------------------------------------- serve_item, after process_task
\* variant: the inbound item is acknowledged first, the push is left for later
ServeItemPushAckFirst(w) ==
    /\ wk[w].pc = "decide"
    /\ Success(wk[w])
    /\ queue' = AckItem(wk[w].item, "acked_success")
    /\ Set(w, [wk[w] EXCEPT !.acked = TRUE, !.pc = "ack"])
    /\ UNCHANGED <<pm, active, out, cancelled, graph, orphaned>>

\* variant: the registry is consulted again before the push, and a task
\* cancelled in the meantime is acknowledged without an IndexOutput
ServeItemPushRecheck(w) ==
    /\ wk[w].pc = "decide"
    /\ Success(wk[w])
    /\ LET r == [wk[w] EXCEPT !.checks = @ + 1] IN
       IF ShouldStopProcessing(IndexRequest(r.item).task_id)
       THEN /\ queue' = AckItem(r.item, "acked_cancel")
            /\ Set(w, Returned([r EXCEPT !.acked = TRUE], "true"))
            /\ UNCHANGED out
       ELSE /\ out' = out (+) SetToBag({IndexOutput(IndexRequest(r.item))})
            /\ Set(w, [r EXCEPT !.pushed = TRUE, !.pc = "ack"])
            /\ UNCHANGED queue
    /\ UNCHANGED <<pm, active, cancelled, graph, orphaned>>

\* variant: a push that raised is logged and the call carries on to the ack
ServeItemPushSwallow(w) ==
    /\ wk[w].pc = "decide"
    /\ Success(wk[w])
    /\ IF ~pm.output_queue
       THEN /\ Set(w, Raised(wk[w], "output_queue"))
            /\ UNCHANGED out
       ELSE \E ok \in BOOLEAN :
               IF ok THEN /\ out' = out (+) SetToBag({IndexOutput(IndexRequest(wk[w].item))})
                          /\ Set(w, [wk[w] EXCEPT !.pushed = TRUE, !.pc = "ack"])
                     ELSE /\ Set(w, [wk[w] EXCEPT !.pc = "ack"])
                          /\ UNCHANGED out
    /\ UNCHANGED <<pm, active, queue, cancelled, graph, orphaned>>

\* success: push the IndexOutput (the push may raise)
ServeItemPush(w) ==
    /\ wk[w].pc = "decide"
    /\ Success(wk[w])
    /\ IF ~pm.output_queue
       THEN /\ Set(w, Raised(wk[w], "output_queue"))
            /\ UNCHANGED out
       ELSE \E ok \in BOOLEAN :
               IF ok THEN /\ out' = out (+) SetToBag({IndexOutput(IndexRequest(wk[w].item))})
                          /\ Set(w, [wk[w] EXCEPT !.pushed = TRUE, !.pc = "ack"])
                     ELSE /\ Set(w, Raised(wk[w], "push"))
                          /\ UNCHANGED out
    /\ UNCHANGED <<pm, active, queue, cancelled, graph, orphaned>>

\* variant: the success path returns without acknowledging
ServeItemAckSkipped(w) ==
    /\ wk[w].pc = "ack"
    /\ Set(w, Returned(wk[w], "true"))
    /\ UNCHANGED <<pm, active, queue, out, cancelled, graph, orphaned>>

\* success: acknowledge the inbound item and return True
ServeItemAck(w) ==
    /\ wk[w].pc = "ack"
    /\ queue' = AckItem(wk[w].item, "acked_success")
    /\ Set(w, Returned([wk[w] EXCEPT !.acked = TRUE], "true"))
    /\ UNCHANGED <<pm, active, out, cancelled, graph, orphaned>>

\* variant: the failure path acknowledges the item as well
ServeItemFailureAcks(w) ==
    /\ wk[w].pc = "decide"
    /\ ~Success(wk[w])
    /\ queue' = AckItem(wk[w].item, "acked_success")
    /\ Set(w, Returned([wk[w] EXCEPT !.acked = TRUE], "true"))
    /\ UNCHANGED <<pm, active, out, cancelled, graph, orphaned>>

\* variant: the failure path reports "no work done"
ServeItemFailureFalse(w) ==
    /\ wk[w].pc = "decide"
    /\ ~Success(wk[w])
    /\ Set(w, Returned(wk[w], "false"))
    /\ UNCHANGED <<pm, active, queue, out, cancelled, graph, orphaned>>

\* failure: log the error and return True, the item stays claimed
ServeItemFailure(w) ==
    /\ wk[w].pc = "decide"
    /\ ~Success(wk[w])
    /\ Set(w, Returned(wk[w], "true"))
    /\ UNCHANGED <<pm, active, queue, out, cancelled, graph, orphaned>>

\* ------------------------------------------------------------- environment
\* the worker process stops in the middle of serve_item (between push and
\* ack at most MaxDeliveries - 1 times per item)
Crash(w) ==
    /\ wk[w].pc \notin {"boot", "idle", "raised", "crashed"}
    /\ wk[w].pc = "ack" => orphaned[wk[w].item] < MaxDeliveries - 1
    /\ Set(w, [NewCall EXCEPT !.pc = "crashed", !.status = "crashed",
                              !.item = wk[w].item, !.stop = wk[w].stop,
                              !.pushed = wk[w].pushed, !.acked = wk[w].acked])
    /\ orphaned' = IF wk[w].pc = "ack"
                   THEN [orphaned EXCEPT ![wk[w].item] = @ + 1]
                   ELSE orphaned
    /\ UNCHANGED <<pm, active, queue, out, cancelled, graph>>

\* a stopped worker process is started again
Restart(w) ==
    /\ wk[w].pc \in {"raised", "crashed"}
    /\ Set(w, NewCall)
    /\ UNCHANGED <<pm, active, queue, out, cancelled, graph, orphaned>>

\* the queue's claim timeout: a claimed item becomes eligible for redelivery
Timeout(i) ==
    /\ queue[i].status = "pending"
    /\ ~queue[i].eligible
    /\ queue' = [queue EXCEPT ![i].eligible = TRUE]
    /\ UNCHANGED <<pm, active, out, cancelled, graph, wk, orphaned>>

\* the task registry marks a task cancelled or expired
Cancel(t) ==
    /\ t \notin cancelled
    /\ cancelled' = cancelled \cup {t}
    /\ UNCHANGED <<pm, active, queue, out, graph, wk, orphaned>>

\* ------------------------------------------------------------ specification
InitCommon ==
    /\ \E redis \in BOOLEAN, wdir \in BOOLEAN, conf \in BOOLEAN,
          graphdb_enabled \in BOOLEAN :
          pm = PostInit(redis, wdir, conf, conf, conf, graphdb_enabled)
    /\ queue = [i \in Items |-> QueueItemInit]
    /\ out = EmptyBag
    /\ cancelled = {}
    /\ graph = {}
    /\ wk = [w \in Workers |-> NewCall]
    /\ orphaned = [i \in Items |-> 0]

\* one worker process
Init == InitCommon /\ active = {"w1"}

Next ==
    \/ \E w \in Workers : Serve(w)
    \/ \E w \in Workers : ServeItemPop(w)
    \/ \E w \in Workers : ServeItemCheck(w)
    \/ \E w \in Workers : ProcessTaskCodequery(w)
    \/ \E w \in Workers : ProcessTaskBranch(w)
    \/ \E w \in Workers : KytheMkdtemp(w)
    \/ \E w \in Workers : KytheChmod(w)
    \/ \E w \in Workers : KytheRwCopy(w)
    \/ \E w \in Workers : KythePatch(w)
    \/ \E w \in Workers : KytheIndexTarget(w)
    \/ \E w \in Workers : KytheChown(w)
    \/ \E w \in Workers : KytheMerge(w)
    \/ \E w \in Workers : KytheCxxIndex(w)
    \/ \E w \in Workers : KytheGraphml(w)
    \/ \E w \in Workers : KytheLoad(w)
    \/ \E w \in Workers : ServeItemPush(w)
    \/ \E w \in Workers : ServeItemAck(w)
    \/ \E w \in Workers : ServeItemFailure(w)
    \/ \E w \in Workers : Crash(w)
    \/ \E w \in Workers : Restart(w)
    \/ \E i \in Items : Timeout(i)
    \/ \E t \in Items : Cancel(t)

Spec == Init /\ [][Next]_vars

\* the steps of worker w's own code: serve() keeps calling serve_item
WorkerStep(w) ==
    \/ Serve(w) \/ ServeItemPop(w) \/ ServeItemCheck(w)
    \/ ProcessTaskCodequery(w) \/ ProcessTaskBranch(w)
    \/ KytheMkdtemp(w) \/ KytheChmod(w) \/ KytheRwCopy(w) \/ KythePatch(w)
    \/ KytheIndexTarget(w) \/ KytheChown(w) \/ KytheMerge(w)
    \/ KytheCxxIndex(w) \/ KytheGraphml(w) \/ KytheLoad(w)
    \/ ServeItemPush(w) \/ ServeItemAck(w) \/ ServeItemFailure(w)

\* a running worker keeps taking steps, a stopped worker is started again,
\* and the queue redelivers: a claim that can time out does
Fairness ==
    /\ \A w \in Workers : WF_vars(WorkerStep(w)) /\ WF_vars(Restart(w))
    /\ \A i \in Items : WF_vars(Timeout(i))

\* one worker process, under fair scheduling and fair redelivery
SpecLive == Init /\ [][Next]_vars /\ Fairness

\* several worker processes on the same queues
InitMulti == InitCommon /\ active = Workers

SpecMulti == InitMulti /\ [][Next]_vars

\* -------------------------------------------------------------- properties
\* IndexOutput records in the outbound queue that belong to item i
Published(i) == CopiesIn(IndexOutput(IndexRequest(i)), out)

\* the serve_item call of worker w has run to its end
Ended(w) == wk[w].status \in {"returned", "raised"} /\ wk[w].item # None

\* the conversion stages worker w has executed in its kythe run, with outcome
IsStage(e) == \E k \in 1..Len(Stages) : e[1] = Stages[k]
StageLog(w) == SelectSeq(wk[w].ksteps, IsStage)

\* C1: when the registry reports that the popped item's task should stop
\* processing, the item is acknowledged, no strategy has been invoked and
\* nothing has been pushed by that call.
InvC1 ==
    \A w \in Workers :
        wk[w].stop = "yes" =>
            /\ wk[w].status = "returned"
            /\ wk[w].acked
            /\ queue[wk[w].item].status = "acked_cancel"
            /\ wk[w].cq = "none" /\ wk[w].ky = "none"
            /\ ~wk[w].pushed

WitC1 == \E w \in Workers : wk[w].stop = "yes" /\ wk[w].status = "returned"

\* C2: when a popped, non-cancelled item had codequery return False and kythe
\* return False or not run, serve_item has pushed nothing, has not acknowledged
\* the item and has returned True; the item is still claimed in the queue.
InvC2 ==
    \A w \in Workers :
        (/\ wk[w].status = "returned" /\ wk[w].stop = "no"
         /\ wk[w].cq = "fail" /\ wk[w].ky \in {"fail", "none"}) =>
            /\ ~wk[w].pushed
            /\ ~wk[w].acked
            /\ wk[w].ret = "true"
            /\ Published(wk[w].item) = orphaned[wk[w].item]
            /\ queue[wk[w].item].status = "pending"

WitC2 ==
    \E w \in Workers :
        /\ wk[w].status = "returned" /\ wk[w].stop = "no"
        /\ wk[w].cq = "fail" /\ wk[w].ky = "fail"

\* C3 (as claimed): whenever codequery succeeded for a popped, non-cancelled
\* item and kythe was disabled or failed at any of its steps, the call, once
\* ended without a failure of the push itself, has pushed the IndexOutput and
\* acknowledged the item.
ClaimC3 ==
    \A w \in Workers :
        (/\ Ended(w) /\ wk[w].stop = "no" /\ wk[w].exc # "push"
         /\ wk[w].cq = "ok" /\ wk[w].ky \in {"none", "fail", "raised"}) =>
            /\ wk[w].pushed
            /\ wk[w].acked

\* C4: on the success path the push precedes the acknowledgement: a call that
\* acknowledged a non-cancelled item has pushed before, a worker between the
\* two operations has pushed and its item is still claimed, an item
\* acknowledged on the success path has its IndexOutput in the outbound queue,
\* and the item of a worker that stopped (crash or exception) is un-acknowledged.
InvC4 ==
    /\ \A w \in Workers :
          /\ (wk[w].acked /\ wk[w].stop # "yes") => wk[w].pushed
          /\ wk[w].pc = "ack" =>
                /\ wk[w].pushed /\ ~wk[w].acked
                /\ Published(wk[w].item) >= 1
                /\ queue[wk[w].item].status = "pending"
          /\ (wk[w].pc \in {"crashed", "raised"} /\ wk[w].item # None) =>
                /\ ~wk[w].acked
                /\ queue[wk[w].item].status = "pending"
    /\ \A i \in Items : queue[i].status = "acked_success" => Published(i) >= 1

WitC4 ==
    \E w \in Workers :
        /\ wk[w].pc = "crashed" /\ wk[w].pushed /\ ~wk[w].acked
        /\ Published(wk[w].item) = 1
        /\ queue[wk[w].item].status = "pending"

\* C5 (as claimed): a serve_item call that returned has published an
\* IndexOutput for its item if and only if it acknowledged the item.
ClaimC5 ==
    \A w \in Workers :
        wk[w].status = "returned" => (wk[w].pushed <=> wk[w].acked)

\* C5 (amended): a serve_item call that returned has acknowledged its item if
\* and only if it published an IndexOutput for it or the registry reported
\* stop-processing; the cancelled path acknowledges without publishing.
InvC5 ==
    \A w \in Workers :
        wk[w].status = "returned" =>
            /\ wk[w].acked <=> (wk[w].pushed \/ wk[w].stop = "yes")
            /\ ~(wk[w].pushed /\ wk[w].stop = "yes")
            /\ wk[w].item = None => (~wk[w].pushed /\ ~wk[w].acked)

WitC5 ==
    \E w \in Workers :
        /\ wk[w].status = "returned" /\ wk[w].pushed /\ wk[w].acked
        /\ wk[w].stop = "no"

\* an attempt on item i has succeeded: its process_task returned True and its
\* IndexOutput was pushed
Succeeded(i) ==
    \/ queue[i].status = "acked_success"
    \/ orphaned[i] > 0
    \/ \E w \in Workers : wk[w].pc = "ack" /\ wk[w].item = i

\* C6 (as claimed): over the deliveries of an item the number of IndexOutput
\* records published for it is zero while no attempt has succeeded and exactly
\* one once an attempt has succeeded.
ClaimC6 ==
    \A i \in Items : Published(i) = IF Succeeded(i) THEN 1 ELSE 0

\* C6 (amended): every IndexOutput comes from an attempt whose process_task
\* succeeded; the number published for an item is one per successful attempt
\* that was stopped between push and acknowledgement, plus one for the attempt
\* that pushed and acknowledged (or is about to): zero while no attempt has
\* succeeded, exactly one after a success when no attempt was stopped there.
InvC6 ==
    /\ \A w \in Workers :
          (wk[w].pushed /\ wk[w].pc # "crashed") => (wk[w].cq = "ok" \/ wk[w].ky = "ok")
    /\ \A i \in Items :
          /\ Published(i) = orphaned[i]
                  + (IF queue[i].status = "acked_success" THEN 1 ELSE 0)
                  + Cardinality({w \in Workers : wk[w].pc = "ack" /\ wk[w].item = i})
          /\ ~Succeeded(i) => Published(i) = 0
          /\ (queue[i].status = "acked_success" /\ orphaned[i] = 0) => Published(i) = 1

\* a redelivered item (no earlier attempt pushed) has just been published
\* once and is about to be acknowledged
WitC6 ==
    \E w \in Workers :
        /\ wk[w].pc = "ack"
        /\ queue[wk[w].item].deliveries >= 2
        /\ orphaned[wk[w].item] = 0
        /\ Published(wk[w].item) = 1

\* C7 (as claimed): no exception leaves process_task_kythe, and it returns
\* True only when every step completed.
ClaimC7 ==
    \A w \in Workers :
        /\ wk[w].ky # "raised"
        /\ (wk[w].ky = "ok" /\ wk[w].pc = "decide") =>
              /\ Len(wk[w].ksteps) = 10
              /\ \A k \in 1..Len(wk[w].ksteps) : wk[w].ksteps[k][2] = "ok"

\* C8: no exception leaves process_task_codequery; it returns True exactly
\* when every one of its steps completed (the with block's exit included) and
\* False otherwise, in particular whenever wdir is None.
InvC8 ==
    \A w \in Workers :
        /\ wk[w].cq # "raised" /\ wk[w].exc # "codequery"
        /\ wk[w].pc = "pt_branch" =>
              /\ wk[w].cq \in {"ok", "fail"}
              /\ wk[w].cq = "ok" <=> wk[w].cqsteps = Len(CodequerySteps)
              /\ ~pm.wdir => wk[w].cq = "fail"

\* the push to remote storage completed, the with block's exit raised
WitC8 ==
    \E w \in Workers :
        /\ wk[w].pc = "pt_branch" /\ wk[w].cq = "fail"
        /\ wk[w].cqsteps = Len(CodequerySteps) - 1

\* C9 (as claimed): an exception leaves serve_item (other than from the push
\* itself) only when a required queue was never initialized.
ClaimC9 ==
    \A w \in Workers :
        (wk[w].status = "raised" /\ wk[w].exc # "push") =>
            (~pm.task_queue \/ ~pm.output_queue)

\* C10: the conversion stages run in the order merge, cxx_index, graphml,
\* load, each at most once, and only the last one executed can have failed;
\* the graphml file exists only after merge and cxx_index succeeded and the
\* graph store holds a task only after a load that followed three successes.
InvC10 ==
    \A w \in Workers :
        LET st == StageLog(w) IN
        /\ Len(st) <= Len(Stages)
        /\ \A k \in 1..Len(st) :
              /\ st[k][1] = Stages[k]
              /\ k < Len(st) => st[k][2] = "ok"
        /\ "graphml_file" \in wk[w].arts => (Len(st) >= 3 /\ st[2][2] = "ok")
        /\ "bin_file" \in wk[w].arts => (Len(st) >= 2 /\ st[1][2] = "ok")
        /\ (wk[w].ky = "ok" /\ wk[w].pc = "decide") =>
              (Len(st) = 4 /\ st[4][2] = "ok" /\ IndexRequest(wk[w].item).task_id \in graph)

\* the binary-index stage failed after a successful merge and the run ended
WitC10 ==
    \E w \in Workers :
        /\ wk[w].pc = "decide" /\ wk[w].ky = "fail"
        /\ StageLog(w) = << <<"merge", "ok">>, <<"cxx_index", "fail">> >>

\* a conversion stage is the step at which process_task_kythe returned False
StageFailed(w) == \E k \in 1..Len(Stages) : wk[w].kfail = Stages[k]

\* C11 (as claimed): when a conversion stage (merge, binary index, graphml,
\* graph-store load) failed for a task, no IndexOutput is published for it
\* and its inbound item is not acknowledged.
ClaimC11 ==
    \A w \in Workers : StageFailed(w) => (~wk[w].pushed /\ ~wk[w].acked)

\* C11 (amended): when a conversion stage failed, process_task_kythe returned
\* False; the task is a failure (nothing pushed, item left claimed) exactly
\* when codequery failed as well, and when codequery succeeded the call that
\* returns has pushed the IndexOutput and acknowledged the item.
InvC11 ==
    \A w \in Workers :
        StageFailed(w) =>
            /\ wk[w].ky = "fail"
            /\ wk[w].pc \in {"decide", "ack"} =>
                  /\ StageLog(w)[Len(StageLog(w))] = <<wk[w].kfail, "fail">>
                  /\ Success(wk[w]) <=> wk[w].cq = "ok"
            /\ wk[w].pushed => wk[w].cq = "ok"
            /\ wk[w].acked => wk[w].pushed
            /\ wk[w].status = "returned" =>
                  /\ wk[w].cq = "ok" <=> (wk[w].pushed /\ wk[w].acked)
                  /\ wk[w].cq = "fail" =>
                        (~wk[w].pushed /\ ~wk[w].acked
                           /\ queue[wk[w].item].status = "pending")

\* the graph-store load failed, codequery had succeeded: published and
\* acknowledged
WitC11 ==
    \E w \in Workers :
        /\ wk[w].status = "returned" /\ wk[w].kfail = "load"
        /\ wk[w].cq = "ok" /\ wk[w].pushed /\ wk[w].acked

\* C12: when index_target returned no output location, process_task_kythe
\* returns False (after the chown, or from the handler when the chown raised)
\* without raising and without running any conversion stage or the load; if
\* codequery failed as well, the call returns with nothing pushed and the
\* item still claimed.
InvC12 ==
    \A w \in Workers :
        wk[w].output_dir = "none" =>
            /\ StageLog(w) = <<>>
            /\ wk[w].ky \in {"running", "fail"} /\ wk[w].exc # "kythe"
            /\ wk[w].ky = "running" <=> wk[w].pc = "k_chown"
            /\ wk[w].ky = "fail" =>
                  /\ wk[w].kfail \in {"output_dir", "chown"}
                  /\ ~wk[w].td /\ wk[w].arts = {}
                  /\ Success(wk[w]) <=> wk[w].cq = "ok"
            /\ (wk[w].status = "returned" /\ wk[w].cq = "fail") =>
                  /\ ~wk[w].pushed /\ ~wk[w].acked
                  /\ queue[wk[w].item].status = "pending"

\* the indexer returned no output location and codequery had failed: the
\* call returned with the item left claimed
WitC12 ==
    \E w \in Workers :
        /\ wk[w].status = "returned" /\ wk[w].output_dir = "none"
        /\ wk[w].kfail = "output_dir" /\ wk[w].cq = "fail"
        /\ ~wk[w].pushed /\ queue[wk[w].item].status = "pending"

\* positions of serve_item inside the with blocks of process_task_kythe
KytheInside == {"k_chmod", "k_rw_copy", "k_patch", "k_index", "k_chown",
                "k_merge", "k_cxx_index", "k_graphml", "k_load"}

\* C13: once control has left process_task_kythe (True, False at any step,
\* or an exception) the workspace, the working copy and every intermediate
\* artifact of the run are gone; artifacts and the working copy exist only
\* inside an existing workspace, and the graph-store load is reached only
\* with the workspace and the graphml file in place.
InvC13 ==
    \A w \in Workers :
        /\ wk[w].pc \notin KytheInside =>
              (~wk[w].td /\ ~wk[w].copy /\ wk[w].arts = {})
        /\ wk[w].ky \in {"ok", "fail", "raised"} =>
              (~wk[w].td /\ ~wk[w].copy /\ wk[w].arts = {})
        /\ (wk[w].arts # {} \/ wk[w].copy) => wk[w].td
        /\ wk[w].pc = "k_load" =>
              (wk[w].td /\ wk[w].copy /\ "graphml_file" \in wk[w].arts)

\* the load failed with all three files written: process_task_kythe has
\* returned False and nothing of the run is left
WitC13 ==
    \E w \in Workers :
        /\ wk[w].pc = "decide" /\ wk[w].kfail = "load"
        /\ Len(StageLog(w)) = 4
        /\ ~wk[w].td /\ ~wk[w].copy /\ wk[w].arts = {}

\* record o carries the five fields of the IndexRequest of item i
CarriesFieldsOf(o, i) ==
    /\ o.build_type = IndexRequest(i).build_type
    /\ o.package_name = IndexRequest(i).package_name
    /\ o.sanitizer = IndexRequest(i).sanitizer
    /\ o.task_dir = IndexRequest(i).task_dir
    /\ o.task_id = IndexRequest(i).task_id

InvC15 ==
    \A w \in Workers :
        /\ wk[w].pc = "process_task" => (wk[w].cq = "none" /\ wk[w].ky = "none")
        /\ wk[w].pc = "pt_branch" => wk[w].ky = "none"
        /\ wk[w].ky # "none" => (pm.graphdb_enabled /\ wk[w].cq \in {"ok", "fail"})
        /\ wk[w].pc \in KytheInside \cup {"k_mkdtemp"} => wk[w].ky = "running"
        /\ (wk[w].pc \in {"decide", "ack"} \/ (wk[w].status = "returned" /\ wk[w].stop = "no")) =>
              /\ wk[w].cq \in {"ok", "fail"}
              /\ wk[w].ky \in {"ok", "fail"} <=> pm.graphdb_enabled
              /\ wk[w].ky = "none" <=> ~pm.graphdb_enabled
        /\ ~pm.graphdb_enabled =>
              (wk[w].ky = "none" /\ wk[w].ksteps = <<>> /\ wk[w].kfail = "none" /\ graph = {})

\* kythe ran to the end although codequery had already succeeded
WitC15 ==
    \E w \in Workers :
        /\ wk[w].pc = "decide" /\ wk[w].cq = "ok" /\ wk[w].ky = "ok"
        /\ Len(wk[w].ksteps) = 10

\* what process_task is claimed to return for the strategy results of a call
ClaimedResult(w) ==
    wk[w].cq = "ok" \/ (pm.graphdb_enabled /\ wk[w].ky = "ok")

\* C16: when both strategies returned a boolean, process_task returns
\* codequery_result OR (graphdb_enabled AND kythe_result): serve_item takes
\* the success path (push, ack) exactly for that value and the failure path
\* (nothing pushed, nothing acknowledged) otherwise.
InvC16 ==
    \A w \in Workers :
        /\ wk[w].pc = "decide" =>
              /\ Success(wk[w]) <=> ClaimedResult(w)
              /\ ~Success(wk[w]) <=>
                    (wk[w].cq = "fail" /\ (wk[w].ky = "fail" \/ ~pm.graphdb_enabled))
        /\ wk[w].pc = "ack" => ClaimedResult(w)
        /\ wk[w].exc \in {"push", "output_queue"} => ClaimedResult(w)
        /\ (wk[w].status = "returned" /\ wk[w].stop = "no") =>
              /\ wk[w].pushed <=> ClaimedResult(w)
              /\ wk[w].acked <=> ClaimedResult(w)

\* codequery failed, kythe succeeded: the call took the success path
WitC16 ==
    \E w \in Workers :
        /\ wk[w].status = "returned" /\ wk[w].stop = "no"
        /\ wk[w].cq = "fail" /\ wk[w].ky = "ok"
        /\ wk[w].pushed /\ wk[w].acked

\* C17: each serve_item call that popped an item consults the registry
\* exactly once, after the pop and before any strategy; a task cancelled
\* after a "continue" answer is processed like any other: both strategies
\* run to their result and a success is pushed and acknowledged.
InvC17 ==
    \A w \in Workers :
        /\ wk[w].checks <= 1
        /\ wk[w].item = None => (wk[w].checks = 0 /\ wk[w].stop = "unk")
        /\ wk[w].pc = "check" =>
              (wk[w].checks = 0 /\ wk[w].cq = "none" /\ wk[w].ky = "none")
        /\ (wk[w].item # None /\ wk[w].pc \notin {"check", "crashed"}) =>
              (wk[w].checks = 1 /\ wk[w].stop \in {"yes", "no"})
        /\ (wk[w].cq # "none" \/ wk[w].ky # "none") =>
              (wk[w].checks = 1 /\ wk[w].stop = "no")
        /\ (wk[w].status = "returned" /\ wk[w].stop = "no"
              /\ IndexRequest(wk[w].item).task_id \in cancelled) =>
              /\ wk[w].cq \in {"ok", "fail"}
              /\ pm.graphdb_enabled => wk[w].ky \in {"ok", "fail"}
              /\ (wk[w].cq = "ok" \/ wk[w].ky = "ok") =>
                    /\ wk[w].pushed /\ wk[w].acked
                    /\ Published(wk[w].item) >= 1
                    /\ queue[wk[w].item].status = "acked_success"

\* the task was cancelled after its check: still pushed and acknowledged
WitC17 ==
    \E w \in Workers :
        /\ wk[w].status = "returned" /\ wk[w].stop = "no" /\ wk[w].checks = 1
        /\ IndexRequest(wk[w].item).task_id \in cancelled
        /\ wk[w].pushed /\ wk[w].acked
        /\ queue[wk[w].item].status = "acked_success"

\* serve_item calls that completed item i: pushed its IndexOutput and
\* acknowledged it (pushes, less those not followed by the ack)
Completed(i) ==
    Published(i) - orphaned[i]
        - Cardinality({w \in Workers : wk[w].pc = "ack" /\ wk[w].item = i})

\* C18 (as claimed): with several workers on the same queue, claim timeouts
\* and no timeout in the worker, no inbound item is completed by two workers.
ClaimC18 == \A i \in Items : Completed(i) <= 1

\* C18 (amended): two workers are inside serve_item with the same item, and
\* an item is completed more than once, only after the item's claim timed out
\* while its holder was still processing it and the item was redelivered;
\* without such a redelivery an item is completed at most once.
InvC18 ==
    /\ \A i \in Items :
          /\ Completed(i) >= 0 /\ Completed(i) <= Cardinality(active)
          /\ Completed(i) >= 2 => queue[i].shared
          /\ ~queue[i].shared => Completed(i) <= 1
    /\ \A v, w \in Workers :
          (v # w /\ wk[v].item # None /\ wk[v].item = wk[w].item
               /\ wk[v].status = "running" /\ wk[w].status = "running") =>
              queue[wk[v].item].shared

\* both workers have pushed and acknowledged the same item
WitC18 ==
    \E i \in Items :
        /\ Completed(i) = 2 /\ queue[i].shared
        /\ \A w \in Workers : wk[w].item = i /\ wk[w].pushed /\ wk[w].acked

\* no inbound item is lost: an item is new, claimed and un-acknowledged, or
\* acknowledged after a cancellation or after its IndexOutput was published
NotLost ==
    /\ \A i \in Items :
          /\ queue[i].status \in {"new", "pending", "acked_cancel", "acked_success"}
          /\ queue[i].status = "acked_success" => Published(i) >= 1
          /\ queue[i].status = "acked_cancel" => IndexRequest(i).task_id \in cancelled
          /\ queue[i].status = "new" => queue[i].deliveries = 0
          /\ queue[i].status = "pending" => queue[i].deliveries >= 1
    /\ \A w \in Workers :
          (wk[w].item # None /\ ~wk[w].acked) => queue[wk[w].item].status = "pending"

\* process_task has returned True for item i in worker w
ProcessingSucceeded(w, i) ==
    wk[w].pc = "decide" /\ wk[w].item = i /\ Success(wk[w])

\* item i is acknowledged with its IndexOutput in the outbound queue
Delivered(i) == queue[i].status = "acked_success" /\ Published(i) >= 1

\* worker w stopped while holding item i, which is still claimed
StoppedHolding(w, i) ==
    /\ wk[w].pc \in {"raised", "crashed"} /\ wk[w].item = i
    /\ queue[i].status = "pending"

\* the task of item i is cancelled or expired
TaskStopped(i) == ShouldStopProcessing(IndexRequest(i).task_id)

\* C19 (as claimed): no item is ever lost, and once processing of an item
\* has succeeded its IndexOutput is eventually published and the item
\* eventually acknowledged, unless its task is cancelled.
ClaimC19 ==
    /\ []NotLost
    /\ \A w \in Workers : \A i \in Items :
          ProcessingSucceeded(w, i) ~> (Delivered(i) \/ TaskStopped(i))

\* C19 (amended): no item is ever lost, and once processing of an item has
\* succeeded, eventually either its IndexOutput is published and the item
\* acknowledged, or the worker has stopped (the push raised, or the process
\* died) with the item still claimed and so left for redelivery, unless its
\* task is cancelled.
InvC19 ==
    /\ []NotLost
    /\ \A w \in Workers : \A i \in Items :
          ProcessingSucceeded(w, i) ~>
              (Delivered(i) \/ StoppedHolding(w, i) \/ TaskStopped(i))

\* processing succeeded but the push raised: the item is still claimed
WitC19 ==
    \E w \in Workers :
        /\ wk[w].status = "raised" /\ wk[w].exc = "push"
        /\ (wk[w].cq = "ok" \/ wk[w].ky = "ok")
        /\ queue[wk[w].item].status = "pending"
        /\ Published(wk[w].item) = 0

\* C20: serve_item returns False exactly when the pop returned no item, and
\* such a call has consulted nothing, run no strategy, pushed nothing and
\* acknowledged nothing; a call that popped an item and returns (cancelled,
\* success or failure) returns True.
InvC20 ==
    \A w \in Workers :
        /\ wk[w].status = "returned" =>
              /\ wk[w].ret \in {"true", "false"}
              /\ wk[w].ret = "false" <=> wk[w].item = None
              /\ wk[w].ret = "true" <=> wk[w].item # None
        /\ wk[w].ret = "false" =>
              /\ wk[w].status = "returned" /\ wk[w].pc = "idle"
              /\ wk[w].checks = 0 /\ wk[w].stop = "unk"
              /\ wk[w].cq = "none" /\ wk[w].ky = "none"
              /\ ~wk[w].pushed /\ ~wk[w].acked
        /\ (wk[w].status = "running" /\ wk[w].item = None) => wk[w].pc = "idle"
        /\ (wk[w].stop = "yes" \/ wk[w].pc \in {"decide", "ack"}) => wk[w].ret # "false"

\* the only item is claimed after a failed attempt: the next call finds
\* nothing to pop and returns False
WitC20 ==
    \E w \in Workers :
        /\ wk[w].status = "returned" /\ wk[w].ret = "false" /\ wk[w].item = None
        /\ \E i \in Items : queue[i].status = "pending" /\ ~queue[i].eligible

====
